---------------------------- MODULE Spec2Model ----------------------------
(***************************************************************************)
(* Model of guygregory/exam-timeline: passed_exams.py (Microsoft Learn     *)
(* transcript + Credly badges -> merged CSV) and fetch_credly_badges.py    *)
(* (Credly badges -> CSV).                                                 *)
(*                                                                         *)
(* Python str values are sequences of one-character strings, so that       *)
(* lower(), `in`, startswith(), split() and the ordering used by sort()    *)
(* are computed, character by character, as Python computes them.          *)
(* Parsed JSON values are records [kind, kids, str]; a dict's kids are its *)
(* (key, value) items in insertion order, a list's kids carry its items.   *)
(* Documents are well typed: a field that is present holds the type the    *)
(* code expects (a str where the code calls a str method on it).           *)
(***************************************************************************)
EXTENDS Integers, Sequences, FiniteSets, TLC

VARIABLES
    pc,             \* position of the running function / script
    prog,           \* which entry point runs
    credly_user,    \* passed_exams.main: args.credly_user given?
    ms_resp,        \* outcome of the GET of the transcript
    credly_resp,    \* outcome of the GET of the badges
    ms_transcript,  \* passed_exams.main: ms_transcript
    ms_exams,       \* passed_exams.main: ms_exams / merge_exam_data's 1st parameter
    badges,         \* passed_exams.main: badges / extract_credly_exams' parameter
    credly_exams,   \* passed_exams.main: credly_exams / merge_exam_data's 2nd parameter
    all_exams,      \* passed_exams.main: all_exams / merge_exam_data's result
    badges_json,    \* fetch_credly_badges.main: badges_json
    badge_records,  \* fetch_credly_badges.main: badges (the extracted records)
    csv,            \* the output file: [written, rows]
    stats,          \* what print_stats printed: [report, total, years, latest_issuer, top_issuer]
    exit_status     \* the process exit status, -1 while running

vars == <<pc, prog, credly_user, ms_resp, credly_resp, ms_transcript, ms_exams,
          badges, credly_exams, all_exams, badges_json, badge_records, csv,
          stats, exit_status>>

-----------------------------------------------------------------------------
(* Bounds of the model.                                                    *)

\* longest list of raw entries / records handed to a function
MaxLen == 2
\* deepest nesting of wrappers around the passed-exams key of a transcript
MaxDepth == 2
\* longest list of badge records handed to print_stats
MaxBadges == 3

-----------------------------------------------------------------------------
(* Python str.                                                             *)

\* the printable ASCII characters in code point order (without the backquote,
\* which a TLA+ string cannot hold)
ASCII ==
    << " ", "!", "\"", "#", "$", "%", "&", "'", "(", ")", "*", "+", ",", "-", ".", "/",
       "0", "1", "2", "3", "4", "5", "6", "7", "8", "9", ":", ";", "<", "=", ">", "?",
       "@", "A", "B", "C", "D", "E", "F", "G", "H", "I", "J", "K", "L", "M", "N", "O",
       "P", "Q", "R", "S", "T", "U", "V", "W", "X", "Y", "Z", "[", "\\", "]", "^", "_",
       "a", "b", "c", "d", "e", "f", "g", "h", "i", "j", "k", "l", "m", "n", "o",
       "p", "q", "r", "s", "t", "u", "v", "w", "x", "y", "z", "{", "|", "}", "~" >>

Range(s) == {s[i] : i \in DOMAIN s}

\* the rank of c in code point order
Ord == [c \in Range(ASCII) |-> CHOOSE i \in DOMAIN ASCII : ASCII[i] = c]

\* str.lower() of one character: "A".."Z" map to "a".."z"
LowerChar == [c \in Range(ASCII) |->
                 IF Ord[c] >= Ord["A"] /\ Ord[c] <= Ord["Z"]
                 THEN ASCII[Ord[c] + (Ord["a"] - Ord["A"])] ELSE c]

\* s.lower()
Lower(s) == [i \in DOMAIN s |-> LowerChar[s[i]]]

\* sub in s
Contains(s, sub) ==
    \E i \in 0..(Len(s) - Len(sub)) : SubSeq(s, i + 1, i + Len(sub)) = sub

\* s.startswith(prefix)
StartsWith(s, prefix) ==
    Len(s) >= Len(prefix) /\ SubSeq(s, 1, Len(prefix)) = prefix

SetMin(S) == CHOOSE x \in S : \A y \in S : x <= y

\* s.split(sep)[0] for a one-character sep: the text before the first sep
SplitFirst(s, sep) ==
    LET at == {i \in DOMAIN s : s[i] = sep}
    IN  IF at = {} THEN s ELSE SubSeq(s, 1, SetMin(at) - 1)

\* a <= b as Python orders str: by the first differing code point, a proper
\* prefix first
StrLeq(a, b) ==
    LET n    == IF Len(a) < Len(b) THEN Len(a) ELSE Len(b)
        diff == {i \in 1..n : a[i] # b[i]}
    IN  IF diff = {} THEN Len(a) <= Len(b)
        ELSE Ord[a[SetMin(diff)]] < Ord[b[SetMin(diff)]]

-----------------------------------------------------------------------------
(* Parsed JSON.                                                            *)

JStr(s)   == [kind |-> "str",  kids |-> << >>, str |-> s]
JBool(b)  == [kind |-> IF b THEN "true" ELSE "false", kids |-> << >>, str |-> << >>]
JDict(kv) == [kind |-> "dict", kids |-> kv, str |-> << >>]
JList(xs) == [kind |-> "list",
              kids |-> [i \in DOMAIN xs |-> [key |-> << >>, val |-> xs[i]]],
              str  |-> << >>]
\* Python's None: what dict.get returns for a missing key
None      == [kind |-> "none", kids |-> << >>, str |-> << >>]
KV(k, v)  == [key |-> k, val |-> v]

\* the items of a list value
Items(j) == [i \in DOMAIN j.kids |-> j.kids[i].val]

\* d.get(k, default)
Get(d, k, default) ==
    LET at == {i \in DOMAIN d.kids : d.kids[i].key = k}
    IN  IF at = {} THEN default ELSE d.kids[SetMin(at)].val

\* bool(x) of a JSON value
Truthy(j) ==
    CASE j.kind = "str"   -> j.str # << >>
      [] j.kind = "true"  -> TRUE
      [] j.kind \in {"dict", "list"} -> j.kids # << >>
      [] OTHER -> FALSE

\* x or y
Or(x, y) == IF Truthy(x) THEN x ELSE y


-----------------------------------------------------------------------------
(* passed_exams.py: the extractors.                                        *)

\* CREDLY_TO_EXAM_MAP, in the dict's (insertion) order
CREDLY_TO_EXAM_MAP ==
    << [k |-> <<"m","i","c","r","o","s","o","f","t","-","c","e","r","t","i","f","i","e","d","-","a","z","u","r","e","-","f","u","n","d","a","m","e","n","t","a","l","s">>, v |-> <<"A","Z","-","9","0","0">>],
       [k |-> <<"m","i","c","r","o","s","o","f","t","-","c","e","r","t","i","f","i","e","d","-","a","z","u","r","e","-","a","d","m","i","n","i","s","t","r","a","t","o","r","-","a","s","s","o","c","i","a","t","e">>, v |-> <<"A","Z","-","1","0","4">>],
       [k |-> <<"m","i","c","r","o","s","o","f","t","-","c","e","r","t","i","f","i","e","d","-","a","z","u","r","e","-","s","o","l","u","t","i","o","n","s","-","a","r","c","h","i","t","e","c","t","-","e","x","p","e","r","t">>, v |-> <<"A","Z","-","3","0","5">>],
       [k |-> <<"m","i","c","r","o","s","o","f","t","-","c","e","r","t","i","f","i","e","d","-","a","z","u","r","e","-","d","e","v","e","l","o","p","e","r","-","a","s","s","o","c","i","a","t","e">>, v |-> <<"A","Z","-","2","0","4">>],
       [k |-> <<"m","i","c","r","o","s","o","f","t","-","c","e","r","t","i","f","i","e","d","-","a","z","u","r","e","-","s","e","c","u","r","i","t","y","-","e","n","g","i","n","e","e","r","-","a","s","s","o","c","i","a","t","e">>, v |-> <<"A","Z","-","5","0","0">>],
       [k |-> <<"m","i","c","r","o","s","o","f","t","-","c","e","r","t","i","f","i","e","d","-","a","z","u","r","e","-","a","i","-","f","u","n","d","a","m","e","n","t","a","l","s">>, v |-> <<"A","I","-","9","0","0">>],
       [k |-> <<"m","i","c","r","o","s","o","f","t","-","c","e","r","t","i","f","i","e","d","-","a","z","u","r","e","-","d","a","t","a","-","f","u","n","d","a","m","e","n","t","a","l","s">>, v |-> <<"D","P","-","9","0","0">>],
       [k |-> <<"m","i","c","r","o","s","o","f","t","-","c","e","r","t","i","f","i","e","d","-","p","o","w","e","r","-","p","l","a","t","f","o","r","m","-","f","u","n","d","a","m","e","n","t","a","l","s">>, v |-> <<"P","L","-","9","0","0">>],
       [k |-> <<"m","i","c","r","o","s","o","f","t","-","3","6","5","-","c","e","r","t","i","f","i","e","d","-","f","u","n","d","a","m","e","n","t","a","l","s">>, v |-> <<"M","S","-","9","0","0">>],
       [k |-> <<"m","i","c","r","o","s","o","f","t","-","c","e","r","t","i","f","i","e","d","-","s","e","c","u","r","i","t","y","-","c","o","m","p","l","i","a","n","c","e","-","a","n","d","-","i","d","e","n","t","i","t","y","-","f","u","n","d","a","m","e","n","t","a","l","s">>, v |-> <<"S","C","-","9","0","0">>],
       [k |-> <<"m","i","c","r","o","s","o","f","t","-","c","e","r","t","i","f","i","e","d","-","d","e","v","o","p","s","-","e","n","g","i","n","e","e","r","-","e","x","p","e","r","t">>, v |-> <<"A","Z","-","4","0","0">>],
       [k |-> <<"m","i","c","r","o","s","o","f","t","-","c","e","r","t","i","f","i","e","d","-","i","d","e","n","t","i","t","y","-","a","n","d","-","a","c","c","e","s","s","-","a","d","m","i","n","i","s","t","r","a","t","o","r","-","a","s","s","o","c","i","a","t","e">>, v |-> <<"S","C","-","3","0","0">>],
       [k |-> <<"g","i","t","h","u","b","-","c","o","p","i","l","o","t">>, v |-> <<"G","H","-","3","0","0">>] >>

\* does find_passed_exams descend into this value of a dict item?
\* (DescendsDictOnly: the variant that forgets the lists)
DescendsDictOnly(value) == value.kind = "dict"
Descends(value) == value.kind \in {"dict", "list"}

\* find_passed_exams(obj): the raw passed-exams list, << >> when none is found.
\* FindFrom(obj, i) is the for loop over obj's items from the i-th on.
RECURSIVE find_passed_exams(_), FindFrom(_, _)
FindFrom(obj, i) ==
    IF i > Len(obj.kids) THEN << >>
    ELSE LET key   == obj.kids[i].key
             value == obj.kids[i].val
         IN  IF obj.kind = "dict"
             THEN IF Lower(key) = <<"p","a","s","s","e","d","e","x","a","m","s">> /\ value.kind = "list"
                  THEN Items(value)
                  ELSE IF Descends(value)
                       THEN LET found == find_passed_exams(value)
                            IN  IF found # << >> THEN found
                                ELSE FindFrom(obj, i + 1)
                       ELSE FindFrom(obj, i + 1)
             ELSE LET found == find_passed_exams(value)
                  IN  IF found # << >> THEN found ELSE FindFrom(obj, i + 1)
find_passed_exams(obj) ==
    IF obj.kind \in {"dict", "list"} THEN FindFrom(obj, 1) ELSE << >>

\* the record extract_microsoft_exams appends for one raw exam
MsExamRecord(exam) ==
    LET exam_title      == Or(Or(Get(exam, <<"e","x","a","m","T","i","t","l","e">>, None),
                                 Get(exam, <<"E","x","a","m","T","i","t","l","e">>, None)), JStr(<< >>))
        exam_number     == Or(Or(Get(exam, <<"e","x","a","m","N","u","m","b","e","r">>, None),
                                 Get(exam, <<"E","x","a","m","N","u","m","b","e","r">>, None)), JStr(<< >>))
        exam_date_taken == Or(Or(Get(exam, <<"e","x","a","m","D","a","t","e","T","a","k","e","n">>, None),
                                 Get(exam, <<"E","x","a","m","D","a","t","e","T","a","k","e","n">>, None)), JStr(<< >>))
        exam_date       == IF Truthy(exam_date_taken)
                           THEN SplitFirst(exam_date_taken.str, "T") ELSE << >>
    IN  [ExamTitle  |-> exam_title.str,
         ExamNumber |-> exam_number.str,
         ExamDate   |-> exam_date,
         Source     |-> "Microsoft Learn"]

extract_microsoft_exams(transcript_json) ==
    LET raw_exams == find_passed_exams(transcript_json)
    IN  [i \in DOMAIN raw_exams |-> MsExamRecord(raw_exams[i])]

\* which of several matching table rows the lookup loop stops at
\* (LastMatch: the variant without the break)
LastMatch(rows) == CHOOSE i \in rows : \A j \in rows : j <= i
FirstMatch(rows) == SetMin(rows)

\* the lookup loop of extract_credly_exams: the exam number of the first key
\* of CREDLY_TO_EXAM_MAP found in badge_slug.lower(); << >> stands for the
\* None the loop leaves when no key matches (every value of the table is a
\* non-empty str, and the code only tests the result's truth)
LookupExam(badge_slug) ==
    LET rows == {i \in DOMAIN CREDLY_TO_EXAM_MAP :
                    Contains(Lower(badge_slug), CREDLY_TO_EXAM_MAP[i].k)}
    IN  IF rows = {} THEN << >> ELSE CREDLY_TO_EXAM_MAP[FirstMatch(rows)].v

\* the records (none or one) extract_credly_exams appends for one badge
CredlyExamRecords(badge) ==
    LET badge_template == Get(badge, <<"b","a","d","g","e","_","t","e","m","p","l","a","t","e">>, JDict(<< >>))
        badge_name  == Get(badge_template, <<"n","a","m","e">>, JStr(<< >>)).str
        badge_slug  == Get(badge_template, <<"b","a","d","g","e","_","t","e","m","p","l","a","t","e","_","e","a","r","n","a","b","l","e","_","i","d">>, JStr(<< >>)).str
        issued_at   == Get(badge, <<"i","s","s","u","e","d","_","a","t","_","d","a","t","e">>, JStr(<< >>)).str
        exam_number == LookupExam(badge_slug)
    IN  IF exam_number # << >>
        THEN << [ExamTitle  |-> badge_name,
                 ExamNumber |-> exam_number,
                 ExamDate   |-> issued_at,
                 Source     |-> "Credly"] >>
        ELSE IF Contains(Lower(badge_name), <<"m","i","c","r","o","s","o","f","t">>)
                \/ Contains(Lower(badge_name), <<"g","i","t","h","u","b">>)
             THEN << [ExamTitle  |-> badge_name,
                      ExamNumber |-> <<"B","a","d","g","e",":"," ">> \o badge_slug,
                      ExamDate   |-> issued_at,
                      Source     |-> "Credly"] >>
             ELSE << >>

\* extract_credly_exams(badges), badges a sequence of raw badges
RECURSIVE extract_credly_exams(_)
extract_credly_exams(raw) ==
    IF raw = << >> THEN << >>
    ELSE CredlyExamRecords(Head(raw)) \o extract_credly_exams(Tail(raw))

-----------------------------------------------------------------------------
(* passed_exams.py: merge_exam_data.                                       *)

\* the key of the first loop (Microsoft Learn exams)
MsKey(exam) == <<exam.ExamNumber, exam.ExamDate>>

\* the key of the second loop (Credly exams)
CredlyKey(exam) ==
    IF StartsWith(exam.ExamNumber, <<"B","a","d","g","e",":">>)
    THEN <<exam.ExamTitle, exam.ExamDate>>
    ELSE <<exam.ExamNumber, exam.ExamDate>>

\* the two loops; st = [seen, merged]
RECURSIVE MsLoop(_, _), CredlyLoop(_, _)
MsLoop(exams, st) ==
    IF exams = << >> THEN st
    ELSE LET exam == Head(exams)
             key  == MsKey(exam)
         IN  MsLoop(Tail(exams),
                    IF key \notin st.seen
                    THEN [seen |-> st.seen \cup {key}, merged |-> Append(st.merged, exam)]
                    ELSE st)
CredlyLoop(exams, st) ==
    IF exams = << >> THEN st
    ELSE LET exam == Head(exams)
             key  == CredlyKey(exam)
         IN  CredlyLoop(Tail(exams),
                        IF key \notin st.seen
                        THEN [seen |-> st.seen \cup {key}, merged |-> Append(st.merged, exam)]
                        ELSE st)

\* merged, before it is sorted
Deduplicated(ms, credly) ==
    CredlyLoop(credly, MsLoop(ms, [seen |-> {}, merged |-> << >>])).merged

\* where a record goes into a list already sorted by date: behind the
\* records of its date (InsertFirst: the variant that puts it in front of them)
InsertFirst(sorted, exam) ==
    LET n == Cardinality({i \in DOMAIN sorted :
                             ~StrLeq(exam.ExamDate, sorted[i].ExamDate)})
    IN  SubSeq(sorted, 1, n) \o <<exam>> \o SubSeq(sorted, n + 1, Len(sorted))
InsertStable(sorted, exam) ==
    LET n == Cardinality({i \in DOMAIN sorted :
                             StrLeq(sorted[i].ExamDate, exam.ExamDate)})
    IN  SubSeq(sorted, 1, n) \o <<exam>> \o SubSeq(sorted, n + 1, Len(sorted))

\* merged.sort(key=lambda x: x["Exam Date"]): list.sort is stable, so a record
\* is placed after every record whose date is not greater
RECURSIVE SortFrom(_, _)
SortFrom(exams, sorted) ==
    IF exams = << >> THEN sorted
    ELSE SortFrom(Tail(exams), InsertStable(sorted, Head(exams)))
SortByDate(exams) == SortFrom(exams, << >>)

merge_exam_data(ms, credly) == SortByDate(Deduplicated(ms, credly))

-----------------------------------------------------------------------------
(* fetch_credly_badges.py: extract_badges.                                 *)

\* entity.get('entity', {}).get('name', '')
EntityName(entity) ==
    Get(Get(entity, <<"e","n","t","i","t","y">>, JDict(<< >>)), <<"n","a","m","e">>, JStr(<< >>)).str

\* the issuer name extract_badges finds in issuer.entities
IssuerName(entities) ==
    LET primary == {i \in DOMAIN entities :
                       Truthy(Get(entities[i], <<"p","r","i","m","a","r","y">>, JBool(FALSE)))}
        \* the for loop: the name of the first primary entity, '' without one
        found   == IF primary = {} THEN << >>
                   ELSE EntityName(entities[SetMin(primary)])
    IN  IF entities = << >> THEN << >>
        ELSE IF found = << >> THEN EntityName(entities[1])
        ELSE found

\* the record extract_badges appends for one badge
BadgeRecord(badge) ==
    LET badge_name  == Get(Get(badge, <<"b","a","d","g","e","_","t","e","m","p","l","a","t","e">>, JDict(<< >>)),
                           <<"n","a","m","e">>, JStr(<< >>)).str
        issued_date == Get(badge, <<"i","s","s","u","e","d","_","a","t","_","d","a","t","e">>, JStr(<< >>)).str
        issuer_info == Get(badge, <<"i","s","s","u","e","r">>, JDict(<< >>))
        entities    == Items(Get(issuer_info, <<"e","n","t","i","t","i","e","s">>, JList(<< >>)))
    IN  [BadgeName |-> badge_name,
         Issuer    |-> IssuerName(entities),
         IssueDate |-> issued_date]

extract_badges(json) ==
    LET raw_badges == Items(Get(json, <<"d","a","t","a">>, JList(<< >>)))
    IN  [i \in DOMAIN raw_badges |-> BadgeRecord(raw_badges[i])]

(* fetch_credly_badges.py: print_stats.                                   *)

\* nothing printed yet
NoStats == [report |-> "none", total |-> 0, years |-> 0,
            latest_issuer |-> << >>, top_issuer |-> << >>]

\* max(dates) of a non-empty list of str
MaxStr(strs) ==
    CHOOSE d \in Range(strs) : \A e \in Range(strs) : StrLeq(e, d)

\* Counter(issuers).most_common(1)[0][0]: the counts are kept in the order the
\* issuers are first met and the first of the greatest count is taken
MostCommon(issuers) ==
    LET count(x) == Cardinality({i \in DOMAIN issuers : issuers[i] = x})
        top      == {i \in DOMAIN issuers :
                        \A j \in DOMAIN issuers : count(issuers[j]) <= count(issuers[i])}
    IN  issuers[SetMin(top)]

\* what print_stats(badges) prints
print_stats(records) ==
    IF records = << >>
    THEN [NoStats EXCEPT !.report = "No badges found."]
    ELSE LET dates == SelectSeq([i \in DOMAIN records |-> records[i].IssueDate],
                                LAMBDA d : d # << >>)
         IN  IF dates # << >>
             THEN LET years       == {SplitFirst(dates[i], "-") : i \in DOMAIN dates}
                      latest_date == MaxStr(dates)
                      latest_badge ==
                          records[SetMin({i \in DOMAIN records :
                                             records[i].IssueDate = latest_date})]
                      issuers == SelectSeq([i \in DOMAIN records |-> records[i].Issuer],
                                           LAMBDA x : x # << >>)
                  IN  [report        |-> "Badge Statistics",
                       total         |-> Len(records),
                       years         |-> Cardinality(years),
                       latest_issuer |-> latest_badge.Issuer,
                       top_issuer    |-> IF issuers # << >> THEN MostCommon(issuers)
                                         ELSE <<"U","n","k","n","o","w","n">>]
             ELSE [report        |-> "Badge Statistics",
                   total         |-> Len(records),
                   years         |-> 0,
                   latest_issuer |-> <<"U","n","k","n","o","w","n">>,
                   top_issuer    |-> <<"U","n","k","n","o","w","n">>]

-----------------------------------------------------------------------------
(* The HTTP collaborator and the fetch functions.                          *)

\* A GET ends in one of: requests.get raises ConnectionError; raise_for_status
\* raises HTTPError; response.json() raises a ValueError; or a parsed body.
Outcomes == {"connection_error", "http_error", "invalid_json", "ok"}
NoResponse == [outcome |-> "none", body |-> None]
Failed(outcome) == [outcome |-> outcome, body |-> None]
Ok(body) == [outcome |-> "ok", body |-> body]

\* the exception a fetch of this response raises, "none" when it returns
Raised(resp) ==
    CASE resp.outcome = "connection_error" -> "ConnectionError"
      [] resp.outcome = "http_error"       -> "HTTPError"
      [] resp.outcome = "invalid_json"     -> "ValueError"
      [] OTHER                             -> "none"

\* passed_exams.fetch_microsoft_transcript: [exc, value]
fetch_microsoft_transcript(resp) == [exc |-> Raised(resp), value |-> resp.body]

\* fetch_credly_badges.fetch_badges: [exc, value]
fetch_badges(resp) == [exc |-> Raised(resp), value |-> resp.body]

\* passed_exams.fetch_credly_badges: [exc, value]; `except Exception` turns a
\* failed GET, an undecodable body and a body without .get into []
\* (FetchCredlyPropagating: the variant without the except clause)
FetchCredlyPropagating(resp) ==
    IF Raised(resp) # "none" THEN [exc |-> Raised(resp), value |-> << >>]
    ELSE IF resp.body.kind # "dict" THEN [exc |-> "AttributeError", value |-> << >>]
    ELSE [exc |-> "none", value |-> Items(Get(resp.body, <<"d","a","t","a">>, JList(<< >>)))]
fetch_credly_badges(resp) ==
    IF Raised(resp) # "none" THEN [exc |-> "none", value |-> << >>]
    ELSE IF resp.body.kind # "dict" THEN [exc |-> "none", value |-> << >>]
    ELSE [exc |-> "none", value |-> Items(Get(resp.body, <<"d","a","t","a">>, JList(<< >>)))]

\* `if not all_exams` (passed_exams.main), `if not badges` (fetch_credly_badges.main)
\* (NeverEmpty: the variant without the check)
NeverEmpty(records) == FALSE
NoExamData(exams) == exams = << >>
NoBadges(records) == records = << >>

\* the file write_csv leaves: the header row and one row per record
NotWritten == [written |-> FALSE, rows |-> << >>]
write_csv(records) == [written |-> TRUE, rows |-> records]

-----------------------------------------------------------------------------
(* Inputs.                                                                 *)

\* all sequences over S of length at most n
SeqsUpTo(S, n) == UNION {[1..k -> S] : k \in 0..n}

\* raw passed-exam entries of a transcript
RawExam1 == JDict(<< KV(<<"e","x","a","m","T","i","t","l","e">>, JStr(<<"A","z","u","r","e"," ","F","u","n","d","a","m","e","n","t","a","l","s">>)),
                     KV(<<"e","x","a","m","N","u","m","b","e","r">>, JStr(<<"A","Z","-","9","0","0">>)),
                     KV(<<"e","x","a","m","D","a","t","e","T","a","k","e","n">>, JStr(<<"2","0","2","3","-","0","5","-","0","1","T","0","0",":","0","0",":","0","0","Z">>)) >>)
RawExam2 == JDict(<< KV(<<"E","x","a","m","T","i","t","l","e">>, JStr(<<"G","i","t","H","u","b"," ","C","o","p","i","l","o","t">>)),
                     KV(<<"E","x","a","m","N","u","m","b","e","r">>, JStr(<<"G","H","-","3","0","0">>)),
                     KV(<<"E","x","a","m","D","a","t","e","T","a","k","e","n">>, JStr(<<"2","0","2","2","-","0","1","-","0","1">>)) >>)
\* an empty title under the first name, no date
RawExam3 == JDict(<< KV(<<"e","x","a","m","T","i","t","l","e">>, JStr(<< >>)),
                     KV(<<"E","x","a","m","T","i","t","l","e">>, JStr(<<"A","d","m","i","n","i","s","t","r","a","t","o","r">>)),
                     KV(<<"e","x","a","m","N","u","m","b","e","r">>, JStr(<<"A","Z","-","1","0","4">>)) >>)
\* an exam number that starts with "Badge:", an exam code as title
RawExam4 == JDict(<< KV(<<"e","x","a","m","T","i","t","l","e">>, JStr(<<"A","Z","-","9","0","0">>)),
                     KV(<<"e","x","a","m","N","u","m","b","e","r">>, JStr(<<"B","a","d","g","e",":"," ","b">>)),
                     KV(<<"e","x","a","m","D","a","t","e","T","a","k","e","n">>, JStr(<<"2","0","2","3","-","0","5","-","0","1","T","0","8",":","0","0",":","0","0","Z">>)) >>)
\* no title at all
RawExam5 == JDict(<< KV(<<"e","x","a","m","N","u","m","b","e","r">>, JStr(<<"D","P","-","9","0","0">>)),
                     KV(<<"e","x","a","m","D","a","t","e","T","a","k","e","n">>, JStr(<<"2","0","2","1","-","1","1","-","3","0","T","1","0",":","0","0",":","0","0","Z">>)) >>)

\* an issuer with the given entities
Entity(primary, name) ==
    JDict(<< KV(<<"p","r","i","m","a","r","y">>, JBool(primary)),
             KV(<<"e","n","t","i","t","y">>, JDict(<< KV(<<"n","a","m","e">>, JStr(name)) >>)) >>)
Issuer(entities) == JDict(<< KV(<<"e","n","t","i","t","i","e","s">>, JList(entities)) >>)

\* raw badges of a Credly profile
Badge(name, slug, date, issuer) ==
    JDict(<< KV(<<"b","a","d","g","e","_","t","e","m","p","l","a","t","e">>,
                JDict(<< KV(<<"n","a","m","e">>, JStr(name)),
                         KV(<<"b","a","d","g","e","_","t","e","m","p","l","a","t","e","_","e","a","r","n","a","b","l","e","_","i","d">>, JStr(slug)) >>)),
             KV(<<"i","s","s","u","e","d","_","a","t","_","d","a","t","e">>, JStr(date)),
             KV(<<"i","s","s","u","e","r">>, issuer) >>)
\* maps to AZ-900, the number and date of RawExam1
RawBadge1 == Badge(<<"M","i","c","r","o","s","o","f","t"," ","C","e","r","t","i","f","i","e","d",":"," ","A","z","u","r","e"," ","F","u","n","d","a","m","e","n","t","a","l","s">>,
                   <<"m","i","c","r","o","s","o","f","t","-","c","e","r","t","i","f","i","e","d","-","a","z","u","r","e","-","f","u","n","d","a","m","e","n","t","a","l","s">>,
                   <<"2","0","2","3","-","0","5","-","0","1">>, Issuer(<< Entity(TRUE, <<"M","i","c","r","o","s","o","f","t">>) >>))
\* no key of the table; the title names Microsoft; no date
RawBadge2 == JDict(<< KV(<<"b","a","d","g","e","_","t","e","m","p","l","a","t","e">>,
                         JDict(<< KV(<<"n","a","m","e">>, JStr(<<"M","i","c","r","o","s","o","f","t"," ","A","m","b","a","s","s","a","d","o","r">>)),
                                  KV(<<"b","a","d","g","e","_","t","e","m","p","l","a","t","e","_","e","a","r","n","a","b","l","e","_","i","d">>, JStr(<<"m","l","s","a","-","2","0","2","2">>)) >>)),
                      KV(<<"i","s","s","u","e","r">>, Issuer(<< >>)) >>)
\* the same title and date under another slug
RawBadge3 == JDict(<< KV(<<"b","a","d","g","e","_","t","e","m","p","l","a","t","e">>,
                         JDict(<< KV(<<"n","a","m","e">>, JStr(<<"M","i","c","r","o","s","o","f","t"," ","A","m","b","a","s","s","a","d","o","r">>)),
                                  KV(<<"b","a","d","g","e","_","t","e","m","p","l","a","t","e","_","e","a","r","n","a","b","l","e","_","i","d">>, JStr(<<"m","l","s","a","-","2","0","2","3">>)) >>)) >>)
\* two keys of the table in one slug, in capitals: MS-900 comes first in the table
RawBadge4 == Badge(<<"G","i","t","H","u","b"," ","C","o","p","i","l","o","t"," ","C","e","r","t","i","f","i","e","d">>,
                   <<"G","i","t","H","u","b","-","C","o","p","i","l","o","t","-","M","i","c","r","o","s","o","f","t","-","3","6","5","-","C","e","r","t","i","f","i","e","d","-","F","u","n","d","a","m","e","n","t","a","l","s">>,
                   <<"2","0","2","2","-","0","1","-","0","1">>,
                   Issuer(<< Entity(FALSE, <<"P","e","a","r","s","o","n">>), Entity(TRUE, <<"G","i","t","H","u","b">>) >>))
\* neither a key nor a vendor name
RawBadge5 == Badge(<<"A","W","S"," ","C","l","o","u","d"," ","P","r","a","c","t","i","t","i","o","n","e","r">>, <<"a","w","s","-","c","l","o","u","d","-","p","r","a","c","t","i","t","i","o","n","e","r">>,
                   <<"2","0","2","0","-","0","2","-","0","2">>,
                   Issuer(<< Entity(FALSE, <<"A","m","a","z","o","n">>), Entity(FALSE, <<"P","e","a","r","s","o","n">>) >>))
\* the vendor name in capitals, no key
RawBadge6 == Badge(<<"G","I","T","H","U","B"," ","F","o","u","n","d","a","t","i","o","n","s">>, <<"F","o","u","n","d","a","t","i","o","n","s","-","1">>,
                   <<"2","0","2","3","-","0","5","-","0","1">>,
                   Issuer(<< Entity(TRUE, << >>), Entity(FALSE, <<"G","i","t","H","u","b">>) >>))
\* no badge_template
RawBadge7 == JDict(<< KV(<<"i","s","s","u","e","d","_","a","t","_","d","a","t","e">>, JStr(<<"2","0","1","9","-","0","9","-","0","9">>)) >>)
\* an issuer and no date
RawBadge8 == JDict(<< KV(<<"b","a","d","g","e","_","t","e","m","p","l","a","t","e">>,
                         JDict(<< KV(<<"n","a","m","e">>, JStr(<<"M","i","c","r","o","s","o","f","t"," ","L","e","a","r","n"," ","E","x","p","e","r","t">>)),
                                  KV(<<"b","a","d","g","e","_","t","e","m","p","l","a","t","e","_","e","a","r","n","a","b","l","e","_","i","d">>, JStr(<<"l","e","a","r","n","-","e","x","p","e","r","t">>)) >>)),
                      KV(<<"i","s","s","u","e","r">>, Issuer(<< Entity(TRUE, <<"M","i","c","r","o","s","o","f","t">>) >>)) >>)

\* bodies the transcript API answers with in the scripts' runs
MainTranscripts ==
    {JDict(<< KV(<<"p","a","s","s","e","d","E","x","a","m","s">>, JList(l)) >>) :
        l \in SeqsUpTo({RawExam1, RawExam3}, MaxLen)}
    \cup {JDict(<< KV(<<"p","r","o","f","i","l","e">>, JDict(<< KV(<<"P","a","s","s","e","d","E","x","a","m","s">>, JList(<< RawExam2 >>)) >>)) >>)}

\* bodies the badges API answers with in the scripts' runs: a data array, an
\* object without one, and a body that is not an object
MainBadgeBodies ==
    {JDict(<< KV(<<"d","a","t","a">>, JList(l)) >>) :
        l \in SeqsUpTo({RawBadge1, RawBadge2, RawBadge5}, MaxLen)}
    \cup {JDict(<< >>), JList(<< >>)}

Responses(bodies) ==
    {Failed(o) : o \in Outcomes \ {"ok"}} \cup {Ok(b) : b \in bodies}

-----------------------------------------------------------------------------
(* The two scripts, from the parsed arguments to the exit status.          *)

Init ==
    /\ pc = "start"
    /\ \/ prog = "passed_exams" /\ credly_user \in BOOLEAN
       \/ prog = "fetch_credly_badges" /\ credly_user = TRUE
    /\ ms_resp = NoResponse
    /\ credly_resp = NoResponse
    /\ ms_transcript = None
    /\ ms_exams = << >>
    /\ badges = << >>
    /\ credly_exams = << >>
    /\ all_exams = << >>
    /\ badges_json = None
    /\ badge_records = << >>
    /\ csv = NotWritten
    /\ stats = NoStats
    /\ exit_status = -1

\* passed_exams.main: the try block around the Microsoft Learn fetch
FetchMicrosoft ==
    /\ prog = "passed_exams" /\ pc = "start"
    /\ \E resp \in Responses(MainTranscripts) :
          LET r == fetch_microsoft_transcript(resp)
          IN  /\ ms_resp' = resp
              /\ IF r.exc # "none"
                 THEN /\ exit_status' = 1
                      /\ pc' = "exit"
                      /\ UNCHANGED <<ms_transcript, ms_exams>>
                 ELSE /\ ms_transcript' = r.value
                      /\ ms_exams' = extract_microsoft_exams(r.value)
                      /\ pc' = "credly"
                      /\ UNCHANGED exit_status
    /\ UNCHANGED <<stats, prog, credly_user, credly_resp, badges, credly_exams,
                   all_exams, badges_json, badge_records, csv>>

\* passed_exams.main: `if args.credly_user:` with a user name
FetchCredly ==
    /\ prog = "passed_exams" /\ pc = "credly" /\ credly_user
    /\ \E resp \in Responses(MainBadgeBodies) :
          LET r == fetch_credly_badges(resp)
          IN  /\ credly_resp' = resp
              /\ IF r.exc # "none"
                 THEN \* an exception leaving main ends the process with status 1
                      /\ exit_status' = 1
                      /\ pc' = "exit"
                      /\ UNCHANGED <<badges, credly_exams>>
                 ELSE /\ badges' = r.value
                      /\ credly_exams' = IF r.value # << >>
                                         THEN extract_credly_exams(r.value)
                                         ELSE << >>
                      /\ pc' = "merge"
                      /\ UNCHANGED exit_status
    /\ UNCHANGED <<stats, prog, credly_user, ms_resp, ms_transcript, ms_exams,
                   all_exams, badges_json, badge_records, csv>>

\* passed_exams.main: `if args.credly_user:` without one
SkipCredly ==
    /\ prog = "passed_exams" /\ pc = "credly" /\ ~credly_user
    /\ pc' = "merge"
    /\ UNCHANGED <<stats, prog, credly_user, ms_resp, credly_resp, ms_transcript,
                   ms_exams, badges, credly_exams, all_exams, badges_json,
                   badge_records, csv, exit_status>>

\* passed_exams.main: merge, the empty check, write_csv, return
MergeAndWrite ==
    /\ prog = "passed_exams" /\ pc = "merge"
    /\ LET merged == merge_exam_data(ms_exams, credly_exams)
       IN  /\ all_exams' = merged
           /\ IF NoExamData(merged)
              THEN exit_status' = 1 /\ UNCHANGED csv
              ELSE exit_status' = 0 /\ csv' = write_csv(merged)
    /\ pc' = "exit"
    /\ UNCHANGED <<stats, prog, credly_user, ms_resp, credly_resp, ms_transcript,
                   ms_exams, badges, credly_exams, badges_json, badge_records>>

\* fetch_credly_badges.main: the try block around fetch_badges; it catches
\* HTTPError and ValueError, any other exception leaves main and ends the
\* process with status 1
FetchBadges ==
    /\ prog = "fetch_credly_badges" /\ pc = "start"
    /\ \E resp \in Responses(MainBadgeBodies) :
          LET r == fetch_badges(resp)
          IN  /\ credly_resp' = resp
              /\ IF r.exc # "none"
                 THEN /\ exit_status' = 1
                      /\ pc' = "exit"
                      /\ UNCHANGED badges_json
                 ELSE /\ badges_json' = r.value
                      /\ pc' = "extract"
                      /\ UNCHANGED exit_status
    /\ UNCHANGED <<stats, prog, credly_user, ms_resp, ms_transcript, ms_exams, badges,
                   credly_exams, all_exams, badge_records, csv>>

\* fetch_credly_badges.main: extract_badges, the empty check, write_csv,
\* print_stats, return;
\* a body without .get raises in extract_badges, which ends the process with
\* status 1
ExtractAndWrite ==
    /\ prog = "fetch_credly_badges" /\ pc = "extract"
    /\ IF badges_json.kind # "dict"
       THEN exit_status' = 1 /\ UNCHANGED <<badge_records, csv, stats>>
       ELSE LET records == extract_badges(badges_json)
            IN  /\ badge_records' = records
                /\ IF NoBadges(records)
                   THEN exit_status' = 1 /\ UNCHANGED <<csv, stats>>
                   ELSE /\ exit_status' = 0
                        /\ csv' = write_csv(records)
                        /\ stats' = print_stats(records)
    /\ pc' = "exit"
    /\ UNCHANGED <<prog, credly_user, ms_resp, credly_resp, ms_transcript,
                   ms_exams, badges, credly_exams, all_exams, badges_json>>

Next ==
    \/ FetchMicrosoft
    \/ FetchCredly
    \/ SkipCredly
    \/ MergeAndWrite
    \/ FetchBadges
    \/ ExtractAndWrite

Spec == Init /\ [][Next]_vars

-----------------------------------------------------------------------------
(* Claims about the scripts' runs, checked under Spec.                     *)

\* the response of the source the run cannot do without
PrimaryResp == IF prog = "passed_exams" THEN ms_resp ELSE credly_resp

\* the run got its primary response and no source yielded a record
ZeroRecords ==
    /\ PrimaryResp.outcome = "ok"
    /\ IF prog = "passed_exams"
       THEN ms_exams = << >> /\ credly_exams = << >>
       ELSE badges_json.kind = "dict" => Get(badges_json, <<"d","a","t","a">>, JList(<< >>)).kids = << >>

\* the run is over on a fatal path: the primary fetch failed (transport or
\* status error, or a body that is not JSON) or no record is left to write
FatalPath ==
    /\ pc = "exit"
    /\ \/ PrimaryResp.outcome \in Outcomes \ {"ok"}
       \/ ZeroRecords

\* C1: in both scripts a run that ends on a fatal path has a non-zero exit
\* status and has not called write_csv; whenever the output file is written,
\* the primary fetch succeeded and the rows written are not empty.
C1_NoOutputOnFatalPath ==
    /\ FatalPath => exit_status # 0 /\ ~csv.written
    /\ csv.written => PrimaryResp.outcome = "ok" /\ csv.rows # << >>

\* a run of passed_exams.py that fetched both sources and found no record
C1_Witness ==
    /\ prog = "passed_exams" /\ pc = "exit"
    /\ ms_resp.outcome = "ok" /\ credly_resp.outcome = "ok"
    /\ badges # << >>
    /\ ZeroRecords
    /\ exit_status = 1 /\ ~csv.written

\* the Credly fetch of a run failed
CredlyFetchFailed == credly_resp.outcome \in Outcomes \ {"ok"}

\* C2: in passed_exams.py with a Credly user, a failed Credly fetch is not
\* fatal: when Microsoft Learn yielded a record the run exits 0 and writes
\* merge_exam_data(ms_exams, []); a failed Microsoft Learn fetch always ends
\* the run with exit status 1.
C2_SecondaryFailureNotFatal ==
    (prog = "passed_exams" /\ pc = "exit") =>
        /\ ms_resp.outcome # "ok" => exit_status = 1
        /\ (credly_user /\ CredlyFetchFailed /\ ms_exams # << >>) =>
               /\ exit_status = 0
               /\ csv = write_csv(merge_exam_data(ms_exams, << >>))

\* a run that lost Credly and still wrote two Microsoft Learn exams
C2_Witness ==
    /\ prog = "passed_exams" /\ pc = "exit" /\ credly_user
    /\ CredlyFetchFailed
    /\ Len(ms_exams) = 2
    /\ exit_status = 0 /\ csv.written

-----------------------------------------------------------------------------
(* merge_exam_data as a function of its two lists.                         *)

\* the top-level transcript holding these raw exams
Transcript(raw_exams) == JDict(<< KV(<<"p","a","s","s","e","d","E","x","a","m","s">>, JList(raw_exams)) >>)

\* lists extract_microsoft_exams returns
MergeMsLists ==
    {extract_microsoft_exams(Transcript(l)) :
        l \in SeqsUpTo({RawExam1, RawExam2, RawExam3, RawExam4}, MaxLen)}

\* lists extract_credly_exams returns
MergeCredlyLists ==
    {extract_credly_exams(l) :
        l \in SeqsUpTo({RawBadge1, RawBadge2, RawBadge3, RawBadge4}, MaxLen)}

\* one source's list with itself, or a Microsoft Learn list with a Credly list
InitMerge ==
    /\ pc = "call"
    /\ prog = "merge_exam_data"
    /\ \/ ms_exams \in MergeCredlyLists /\ credly_exams = ms_exams
       \/ ms_exams \in MergeMsLists /\ credly_exams = ms_exams
       \/ ms_exams \in MergeMsLists /\ credly_exams \in MergeCredlyLists
    /\ credly_user = FALSE
    /\ ms_resp = NoResponse
    /\ credly_resp = NoResponse
    /\ ms_transcript = None
    /\ badges = << >>
    /\ all_exams = << >>
    /\ badges_json = None
    /\ badge_records = << >>
    /\ csv = NotWritten
    /\ stats = NoStats
    /\ exit_status = -1

CallMerge ==
    /\ prog = "merge_exam_data" /\ pc = "call"
    /\ all_exams' = merge_exam_data(ms_exams, credly_exams)
    /\ pc' = "return"
    /\ UNCHANGED <<stats, prog, credly_user, ms_resp, credly_resp, ms_transcript,
                   ms_exams, badges, credly_exams, badges_json, badge_records,
                   csv, exit_status>>

NextMerge == CallMerge

SpecMerge == InitMerge /\ [][NextMerge]_vars

\* the DedupeKey of a record: (title, date) under a "Badge:" fallback tag,
\* (number, date) otherwise
DedupeKey(exam) ==
    IF StartsWith(exam.ExamNumber, <<"B","a","d","g","e",":">>)
    THEN <<exam.ExamTitle, exam.ExamDate>>
    ELSE <<exam.ExamNumber, exam.ExamDate>>

\* how often a record occurs in a list
Count(list, exam) == Cardinality({i \in DOMAIN list : list[i] = exam})

\* the p-th record of the input was discarded: the result holds fewer copies
\* of it than the input up to p
Discarded(input, p) ==
    Count(all_exams, input[p]) < Count(SubSeq(input, 1, p), input[p])

\* C3: the result of merge_exam_data holds no two records with equal
\* DedupeKey, and a record is discarded only if a record with an equal
\* DedupeKey was kept before it.
C3_NoTwoEqualDedupeKeys ==
    pc = "return" =>
        LET input == ms_exams \o credly_exams
        IN  /\ \A i, j \in DOMAIN all_exams :
                   i < j => DedupeKey(all_exams[i]) # DedupeKey(all_exams[j])
            /\ \A p \in DOMAIN input :
                   Discarded(input, p) =>
                       \E q \in 1..(p - 1) :
                           /\ DedupeKey(input[q]) = DedupeKey(input[p])
                           /\ Count(all_exams, input[q]) > 0

\* C4: when a Microsoft Learn record of ms_exams and a Credly record of
\* credly_exams have the same DedupeKey and different titles, the result
\* holds a Microsoft Learn record for that key and no Credly record for it.
C4_PrimarySourceWins ==
    pc = "return" =>
        \A m \in Range(ms_exams), c \in Range(credly_exams) :
            ( /\ m.Source = "Microsoft Learn" /\ c.Source = "Credly"
              /\ DedupeKey(m) = DedupeKey(c)
              /\ m.ExamTitle # c.ExamTitle ) =>
                /\ \E r \in Range(all_exams) :
                       r.Source = "Microsoft Learn" /\ DedupeKey(r) = DedupeKey(m)
                /\ \A r \in Range(all_exams) :
                       r.Source = "Credly" => DedupeKey(r) # DedupeKey(m)

\* a list is in date order
DateOrdered(list) ==
    \A i, j \in DOMAIN list : i < j => StrLeq(list[i].ExamDate, list[j].ExamDate)

\* a list holds no record twice
NoRepeats(list) == \A i, j \in DOMAIN list : i < j => list[i] # list[j]

\* C5: merging one source's list L with itself yields exactly L. Stated for
\* the lists that are already in date order and hold no record twice, which
\* neither the sort nor the removal of a repeated entry can change.
C5_MergeWithItself ==
    ( /\ pc = "return"
      /\ ms_exams = credly_exams
      /\ DateOrdered(ms_exams) /\ NoRepeats(ms_exams) ) =>
        all_exams = ms_exams

\* the records of a list that carry a date, in the list's order
WithDate(list, date) == SelectSeq(list, LAMBDA exam : exam.ExamDate = date)

\* a is b with some entries left out
RECURSIVE IsSubsequence(_, _)
IsSubsequence(a, b) ==
    IF a = << >> THEN TRUE
    ELSE IF b = << >> THEN FALSE
    ELSE IF Head(a) = Head(b) THEN IsSubsequence(Tail(a), Tail(b))
    ELSE IsSubsequence(a, Tail(b))

\* C6: the dates of a result of merge_exam_data never decrease in str order
\* (the empty date first), and the records of one date stand in the order
\* they had before the sort: the kept records of ms_exams in their order, then
\* the kept records of credly_exams in theirs.
C6_SortedAndStable ==
    pc = "return" =>
        /\ DateOrdered(all_exams)
        /\ \A i \in DOMAIN all_exams :
               WithDate(all_exams, all_exams[i].ExamDate)
                   = WithDate(Deduplicated(ms_exams, credly_exams),
                              all_exams[i].ExamDate)
        /\ \A i \in DOMAIN all_exams :
               IsSubsequence(WithDate(all_exams, all_exams[i].ExamDate),
                             WithDate(ms_exams \o credly_exams, all_exams[i].ExamDate))
        /\ Len(all_exams) = Len(Deduplicated(ms_exams, credly_exams))

\* a Credly record without a date sorted in front of two Microsoft Learn
\* records of one date
C6_Witness ==
    /\ pc = "return"
    /\ Len(all_exams) = 3
    /\ all_exams[1].ExamDate = << >> /\ all_exams[1].Source = "Credly"
    /\ all_exams[2].ExamDate = all_exams[3].ExamDate
    /\ Len(ms_exams) = 2
    /\ all_exams[2] = ms_exams[1] /\ all_exams[3] = ms_exams[2]

-----------------------------------------------------------------------------
(* The extractors as functions of the document they are given.             *)

\* a passed-exams list under its key, in two spellings
TreeBases ==
    {JDict(<< KV(k, JList(l)) >>) :
        k \in {<<"p","a","s","s","e","d","E","x","a","m","s">>, <<"P","A","S","S","E","D","E","X","A","M","S">>},
        l \in SeqsUpTo({RawExam1, RawExam3, RawExam5}, MaxLen)}

\* one more level around a tree t: under an unrelated key; in a list behind
\* a str; behind a passed-exams key that holds no list; behind an empty
\* passed-exams list; behind another passed-exams list
Wrap(t) ==
    { JDict(<< KV(<<"p","r","o","f","i","l","e">>, t) >>),
      JList(<< JStr(<<"v","1">>), t >>),
      JDict(<< KV(<<"p","a","s","s","e","d","e","x","a","m","s">>, JDict(<< KV(<<"c","o","u","n","t">>, JStr(<<"0">>)) >>)),
               KV(<<"c","e","r","t","i","f","i","c","a","t","i","o","n","s">>, t) >>),
      JDict(<< KV(<<"h","i","s","t","o","r","y">>, JDict(<< KV(<<"P","a","s","s","e","d","E","x","a","m","s">>, JList(<< >>)) >>)),
               KV(<<"d","a","t","a">>, t) >>),
      JList(<< JDict(<< KV(<<"p","a","s","s","e","d","E","x","a","m","s">>, JList(<< RawExam2 >>)) >>), t >>) }

\* the trees with at most d levels around the passed-exams key
RECURSIVE Trees(_)
Trees(d) ==
    IF d = 0 THEN TreeBases
    ELSE LET inner == Trees(d - 1)
         IN  inner \cup UNION {Wrap(t) : t \in inner}

TranscriptDocs == Trees(MaxDepth) \cup {JDict(<< KV(<<"p","r","o","f","i","l","e">>, JStr(<<"v","1">>)) >>)}

BadgeLists ==
    SeqsUpTo({RawBadge1, RawBadge2, RawBadge3, RawBadge4, RawBadge5,
              RawBadge6, RawBadge7}, MaxLen)

BadgeDocs == {JDict(<< KV(<<"d","a","t","a">>, JList(l)) >>) : l \in BadgeLists}
                 \cup {JDict(<< >>)}

InitExtract ==
    /\ pc = "call"
    /\ \/ /\ prog = "extract_microsoft_exams"
          /\ ms_transcript \in TranscriptDocs
          /\ badges = << >> /\ badges_json = None
       \/ /\ prog = "extract_credly_exams"
          /\ badges \in BadgeLists
          /\ ms_transcript = None /\ badges_json = None
       \/ /\ prog = "extract_badges"
          /\ badges_json \in BadgeDocs
          /\ ms_transcript = None /\ badges = << >>
    /\ credly_user = FALSE
    /\ ms_resp = NoResponse
    /\ credly_resp = NoResponse
    /\ ms_exams = << >>
    /\ credly_exams = << >>
    /\ all_exams = << >>
    /\ badge_records = << >>
    /\ csv = NotWritten
    /\ stats = NoStats
    /\ exit_status = -1

CallExtractMicrosoft ==
    /\ prog = "extract_microsoft_exams" /\ pc = "call"
    /\ ms_exams' = extract_microsoft_exams(ms_transcript)
    /\ pc' = "return"
    /\ UNCHANGED <<stats, prog, credly_user, ms_resp, credly_resp, ms_transcript,
                   badges, credly_exams, all_exams, badges_json, badge_records,
                   csv, exit_status>>

CallExtractCredly ==
    /\ prog = "extract_credly_exams" /\ pc = "call"
    /\ credly_exams' = extract_credly_exams(badges)
    /\ pc' = "return"
    /\ UNCHANGED <<stats, prog, credly_user, ms_resp, credly_resp, ms_transcript,
                   ms_exams, badges, all_exams, badges_json, badge_records,
                   csv, exit_status>>

CallExtractBadges ==
    /\ prog = "extract_badges" /\ pc = "call"
    /\ badge_records' = extract_badges(badges_json)
    /\ pc' = "return"
    /\ UNCHANGED <<stats, prog, credly_user, ms_resp, credly_resp, ms_transcript,
                   ms_exams, badges, credly_exams, all_exams, badges_json,
                   csv, exit_status>>

NextExtract ==
    \/ CallExtractMicrosoft
    \/ CallExtractCredly
    \/ CallExtractBadges

SpecExtract == InitExtract /\ [][NextExtract]_vars

\* the slug and the title of a raw badge
SlugOf(badge) ==
    Get(Get(badge, <<"b","a","d","g","e","_","t","e","m","p","l","a","t","e">>, JDict(<< >>)),
        <<"b","a","d","g","e","_","t","e","m","p","l","a","t","e","_","e","a","r","n","a","b","l","e","_","i","d">>, JStr(<< >>)).str
TitleOf(badge) ==
    Get(Get(badge, <<"b","a","d","g","e","_","t","e","m","p","l","a","t","e">>, JDict(<< >>)), <<"n","a","m","e">>, JStr(<< >>)).str

\* the rows of CREDLY_TO_EXAM_MAP whose key is a substring of the lowercased slug
KeysIn(slug) ==
    {i \in DOMAIN CREDLY_TO_EXAM_MAP : Contains(Lower(slug), CREDLY_TO_EXAM_MAP[i].k)}

\* the title names a vendor, in any case
NamesVendor(title) ==
    Contains(Lower(title), <<"m","i","c","r","o","s","o","f","t">>) \/ Contains(Lower(title), <<"g","i","t","h","u","b">>)

\* the exam numbers of the records one badge is to yield: the value of the
\* first matching key in table order; else the fallback tag when the title
\* names a vendor; else no record
NumbersFor(badge) ==
    IF KeysIn(SlugOf(badge)) # {}
    THEN << CREDLY_TO_EXAM_MAP[SetMin(KeysIn(SlugOf(badge)))].v >>
    ELSE IF NamesVendor(TitleOf(badge))
         THEN << <<"B","a","d","g","e",":"," ">> \o SlugOf(badge) >>
         ELSE << >>

RECURSIVE NumbersForAll(_)
NumbersForAll(raw) ==
    IF raw = << >> THEN << >>
    ELSE NumbersFor(Head(raw)) \o NumbersForAll(Tail(raw))

\* what extract_credly_exams returns for each badge handed to it alone
RECURSIVE EachAlone(_)
EachAlone(raw) ==
    IF raw = << >> THEN << >>
    ELSE extract_credly_exams(<< Head(raw) >>) \o EachAlone(Tail(raw))

\* C7: extract_credly_exams yields for every badge, in order, one record
\* numbered by the first key of CREDLY_TO_EXAM_MAP found in its lowercased
\* slug, else one record tagged "Badge: <slug>" when its title names
\* microsoft or github in any case, else nothing; what a badge yields does
\* not depend on the other badges of the list.
C7_ThreeOutcomes ==
    (pc = "return" /\ prog = "extract_credly_exams") =>
        /\ [i \in DOMAIN credly_exams |-> credly_exams[i].ExamNumber]
               = NumbersForAll(badges)
        /\ credly_exams = EachAlone(badges)

\* a dropped badge before one whose slug holds two keys of the table, the
\* later key (github-copilot) standing first in the slug
C7_Witness ==
    /\ pc = "return" /\ prog = "extract_credly_exams"
    /\ badges = << RawBadge5, RawBadge4 >>
    /\ Len(credly_exams) = 1
    /\ credly_exams[1].ExamNumber = <<"M","S","-","9","0","0">>

\* the key is the passed-exams key, in any case
IsPassedExamsKey(key) == Lower(key) = <<"p","a","s","s","e","d","e","x","a","m","s">>

\* every list a tree holds under a passed-exams key, at any depth
RECURSIVE NestedLists(_)
NestedLists(tree) ==
    UNION { (IF tree.kind = "dict" /\ IsPassedExamsKey(tree.kids[i].key)
                   /\ tree.kids[i].val.kind = "list"
             THEN {tree.kids[i].val} ELSE {})
            \cup NestedLists(tree.kids[i].val) : i \in DOMAIN tree.kids }

\* the tree has a passed-exams list under a key of its top level
TopLevelKey(tree) ==
    /\ tree.kind = "dict"
    /\ \E i \in DOMAIN tree.kids :
           IsPassedExamsKey(tree.kids[i].key) /\ tree.kids[i].val.kind = "list"

\* one record per entry of a raw list, in its order
RecordsOf(list) == [i \in DOMAIN list.kids |-> MsExamRecord(list.kids[i].val)]

EntitiesOf(json, i) ==
    Items(Get(Get(Items(Get(json, <<"d","a","t","a">>, JList(<< >>)))[i],
                  <<"i","s","s","u","e","r">>, JDict(<< >>)),
              <<"e","n","t","i","t","i","e","s">>, JList(<< >>)))

\* the issuer a badge is to get: the primary entity's name, else the first
\* entity's name, else the placeholder
ExpectedIssuer(entities) ==
    LET primary == {i \in DOMAIN entities :
                       Get(entities[i], <<"p","r","i","m","a","r","y">>, JBool(FALSE)).kind = "true"}
    IN  IF primary # {} THEN EntityName(entities[SetMin(primary)])
        ELSE IF entities # << >> THEN EntityName(entities[1])
        ELSE <<"U","n","k","n","o","w","n">>

\* C9: the Issuer of every record of extract_badges is the name of the
\* entity marked primary, else the name of the first entity, and "Unknown"
\* when the entities list is empty or absent.
C9_IssuerOrUnknown ==
    (pc = "return" /\ prog = "extract_badges") =>
        \A i \in DOMAIN badge_records :
            badge_records[i].Issuer = ExpectedIssuer(EntitiesOf(badges_json, i))

\* C10: every record an extractor returns has a non-empty title and a
\* non-empty source (its number and date are str in every document of the
\* model, the empty str when the field is missing).
C10_TitleAndSourceNotEmpty ==
    pc = "return" =>
        /\ \A i \in DOMAIN ms_exams :
               ms_exams[i].ExamTitle # << >> /\ ms_exams[i].Source # ""
        /\ \A i \in DOMAIN credly_exams :
               credly_exams[i].ExamTitle # << >> /\ credly_exams[i].Source # ""
        /\ \A i \in DOMAIN badge_records : badge_records[i].BadgeName # << >>

-----------------------------------------------------------------------------
(* print_stats as a function of the records extract_badges produces.       *)

\* the raw badge lists whose records are handed to print_stats
StatsBadgeLists ==
    SeqsUpTo({RawBadge1, RawBadge4, RawBadge5, RawBadge6, RawBadge8}, MaxBadges)

\* the record lists print_stats is called with
StatsRecordLists ==
    {extract_badges(JDict(<< KV(<<"d","a","t","a">>, JList(l)) >>)) : l \in StatsBadgeLists}

InitStats ==
    /\ pc = "call"
    /\ prog = "print_stats"
    /\ badge_records \in StatsRecordLists
    /\ credly_user = FALSE
    /\ ms_resp = NoResponse
    /\ credly_resp = NoResponse
    /\ ms_transcript = None
    /\ ms_exams = << >>
    /\ badges = << >>
    /\ credly_exams = << >>
    /\ all_exams = << >>
    /\ badges_json = None
    /\ csv = NotWritten
    /\ stats = NoStats
    /\ exit_status = -1

CallPrintStats ==
    /\ prog = "print_stats" /\ pc = "call"
    /\ stats' = print_stats(badge_records)
    /\ pc' = "return"
    /\ UNCHANGED <<prog, credly_user, ms_resp, credly_resp, ms_transcript,
                   ms_exams, badges, credly_exams, all_exams, badges_json,
                   badge_records, csv, exit_status>>

NextStats == CallPrintStats

SpecStats == InitStats /\ [][NextStats]_vars

\* the first record in input order whose Issue Date equals the maximum Issue
\* Date of the list
FirstOfLatestDate(records) ==
    LET latest == CHOOSE i \in DOMAIN records :
                      \A j \in DOMAIN records :
                          StrLeq(records[j].IssueDate, records[i].IssueDate)
    IN  records[SetMin({i \in DOMAIN records :
                           records[i].IssueDate = records[latest].IssueDate})]

\* the positions of the records with issuer x
Occurrences(records, x) == {i \in DOMAIN records : records[i].Issuer = x}

\* x is the most frequent non-empty Issuer value of the list, a tie going to
\* the one met first in input order
IsTopIssuer(records, x) ==
    /\ x # << >>
    /\ Occurrences(records, x) # {}
    /\ \A i \in DOMAIN records :
          LET y == records[i].Issuer
          IN  y # << >> /\ y # x =>
                  \/ Cardinality(Occurrences(records, y))
                         < Cardinality(Occurrences(records, x))
                  \/ /\ Cardinality(Occurrences(records, y))
                            = Cardinality(Occurrences(records, x))
                     /\ SetMin(Occurrences(records, x))
                            < SetMin(Occurrences(records, y))

\* C11: for every non-empty badge list, print_stats reports as latest the
\* first record in input order whose Issue Date equals the maximum Issue
\* Date, and as top issuer the most frequent non-empty Issuer value, ties
\* going to the one met first, also when every Issue Date is empty
C11_LatestAndTopIssuer ==
    (prog = "print_stats" /\ pc = "return" /\ badge_records # << >>) =>
        /\ stats.latest_issuer = FirstOfLatestDate(badge_records).Issuer
        /\ \A i \in DOMAIN badge_records :
              IsTopIssuer(badge_records, badge_records[i].Issuer) =>
                  stats.top_issuer = badge_records[i].Issuer

=============================================================================
